---- MODULE Spec2Model ----
(***************************************************************************)
(* A model of the driver.  The change-stream layer:                        *)
(*   - PipelineBuilder (src/src/change_stream/pipelines.rs), the pure      *)
(*     function that builds the $changeStream pipeline, and                *)
(*   - ChangeStream (src/src/change_stream/mod.rs), the resumable feed     *)
(*     that owns a cursor, a buffer and the resume bookkeeping;            *)
(* the connection pool of one server (src/src/pool.rs), used by several    *)
(* threads; and the request-id counter of MongoClient                      *)
(* (src/src/client/mod.rs).                                                *)
(*                                                                         *)
(* An Option<T> is a sequence of length 0 (None) or 1 (Some(x)).           *)
(* A BSON value is a record [t |-> tag, v |-> string].                     *)
(***************************************************************************)
EXTENDS Naturals, Integers, Sequences, FiniteSets, TLC

VARIABLES
    pb,       \* the PipelineBuilder under construction (Option)
    built,    \* the last build(): the builder it consumed and its result (Option)
    cs,       \* the ChangeStream struct (Option: None before a constructor succeeded)
    last,     \* what the last constructor / Iterator::next call did and returned
    yielded,  \* the document the iterator last returned (Option)
    payload,  \* the payload update_buffer last stored (Option)
    aborted,  \* TRUE once a call has panicked
    pool,     \* the Pool behind the mutex of a ConnectionPool (Option)
    streams,  \* per thread: where it is in acquire_stream, the PooledStream it holds
    req_id,   \* MongoClient::req_id, the atomic counter
    ids       \* the ids get_req_id returned, in the order of the atomic operations

feedvars == <<pb, built, cs, last, yielded, payload, aborted>>
poolvars == <<pool, streams>>
clientvars == <<req_id, ids>>
vars == <<pb, built, cs, last, yielded, payload, aborted, pool, streams, req_id, ids>>

-----------------------------------------------------------------------------
(* Bounds *)

\* Longest batch a payload carries.
MaxBatch == 2
\* Number of cursors a feed may rebuild before the caller stops iterating.
MaxCursors == 2
\* Largest size a connection pool is given.
MaxSize == 2
\* Number of times a connection pool is cleared.
MaxClears == 2
\* Number of get_req_id calls the threads make.
MaxCalls == 6

-----------------------------------------------------------------------------
(* Option, BSON values and documents *)

None == <<>>
Some(x) == <<x>>
is_some(o) == o # <<>>
unwrap(o) == o[1]
Option(S) == {None} \cup {Some(x) : x \in S}

BsonNull == [t |-> "null", v |-> ""]
BsonDocument(d) == [t |-> "document", v |-> d]
BsonTimeStamp(ts) == [t |-> "timestamp", v |-> ts]
BsonString(s) == [t |-> "string", v |-> s]
BsonI64(n) == [t |-> "i64", v |-> n]
BsonI32(n) == [t |-> "i32", v |-> n]
BsonBool(b) == [t |-> "bool", v |-> b]

\* A document of the model is a record over the keys a $changeStream stage
\* can carry; a key the document does not have holds Absent.
Absent == [t |-> "absent", v |-> ""]
\* Document::insert: sets the key, replacing the value of an existing key.
insert(d, k, val) == [d EXCEPT ![k] = val]
\* Document::remove: drops the key if it is there.
remove(d, k) == [d EXCEPT ![k] = Absent]
contains_key(d, k) == d[k] # Absent
\* The keys a document has.
keys(d) == {k \in DOMAIN d : contains_key(d, k)}

-----------------------------------------------------------------------------
(* Values the model draws from *)

\* Resume tokens the server hands out: the _id's of the change documents it
\* has to send, in server order, and post-batch tokens.
DocTokenSeq == [i \in 1..MaxBatch |-> CASE i = 1 -> "t1" [] i = 2 -> "t2" [] i = 3 -> "t3"
                                          [] OTHER -> "t4"]
DocTokens == {DocTokenSeq[i] : i \in 1..MaxBatch}
PostBatchTokens == {"p1"}
Tokens == DocTokens \cup PostBatchTokens
\* Resume tokens a caller puts in the options (resume_after, start_after).
UserTokens == {"u1"}
StartTokens == {"u2"}
\* Operation times reported by the server.
OpTimes == {"ts1"}
\* Operation times a caller puts in the options.
UserOpTimes == {"ts0"}
\* User pipelines: lists of stages, each a document.
MatchStage == [name |-> "$match", spec |-> "m"]
ProjectStage == [name |-> "$project", spec |-> "p"]
Pipelines == {<<>>, <<MatchStage, ProjectStage>>}

FullDocumentModes == {"default", "updateLookup"}

\* ChangeStreamOptions values.
ChangeStreamOptions ==
    [full_document : FullDocumentModes,
     resume_after : Option(UserTokens),
     max_await : Option({"1000"}),
     batch_size : Option({"10"}),
     collation : Option({"c"}),
     start_at_operation_time : Option(UserOpTimes),
     start_after : Option(StartTokens)]

\* ChangeStreamOptions::builder().build(): every field at its default.
DefaultOptions ==
    [full_document |-> "default", resume_after |-> None, max_await |-> None,
     batch_size |-> None, collation |-> None,
     start_at_operation_time |-> None, start_after |-> None]

-----------------------------------------------------------------------------
(* ChangeStreamOptions serialisation *)

ser_opt(o, tag) == IF is_some(o) THEN [t |-> tag, v |-> unwrap(o)] ELSE BsonNull

\* to_bson(options): the derived Serialize writes every field under its
\* renamed key; an Option that is None is written as null.
to_bson(options) ==
    [fullDocument |-> BsonString(options.full_document),
     resumeAfter |-> ser_opt(options.resume_after, "document"),
     maxAwaitTimeMS |-> ser_opt(options.max_await, "i64"),
     batchSize |-> ser_opt(options.batch_size, "i32"),
     collation |-> ser_opt(options.collation, "document"),
     startAtOperationTime |-> ser_opt(options.start_at_operation_time, "timestamp"),
     startAfter |-> ser_opt(options.start_after, "document"),
     allChangesForCluster |-> Absent]

-----------------------------------------------------------------------------
(* PipelineBuilder *)

\* PipelineBuilder::new
new(pipeline, options, buffer_len) ==
    [pipeline |-> pipeline, options |-> options, buffer_len |-> buffer_len,
     for_cluster |-> FALSE, last_optime |-> None,
     document_resume_token |-> None, post_batch_resume_token |-> None]

for_cluster(self) == [self EXCEPT !.for_cluster = TRUE]
document_resume_token(self, opt) == [self EXCEPT !.document_resume_token = opt]
post_batch_resume_token(self, opt) == [self EXCEPT !.post_batch_resume_token = opt]
last_optime(self, opt) == [self EXCEPT !.last_optime = opt]

\* The result of a call: Ok(value), Err(error) or a panic.
Ok(x) == [kind |-> "Ok", val |-> x]
Err(e) == [kind |-> "Err", val |-> e]
Panic == [kind |-> "Panic", val |-> "unreachable"]

\* A variant of the cluster flag that marks every stage, whatever the builder.
with_cluster_flag_always(self, opts_doc) ==
    insert(opts_doc, "allChangesForCluster", BsonBool("true"))

\* if self.for_cluster { opts_doc.insert("allChangesForCluster", true) }
with_cluster_flag(self, opts_doc) ==
    IF self.for_cluster
    THEN insert(opts_doc, "allChangesForCluster", BsonBool("true"))
    ELSE opts_doc

\* A variant of branch 1 that keeps the startAtOperationTime key.
use_post_batch_token_keeping_optime(self, opts_doc) ==
    remove(insert(opts_doc, "resumeAfter",
                  BsonDocument(unwrap(self.post_batch_resume_token))),
           "startAfter")

\* Branch 1: post batch resume token with an empty buffer.
use_post_batch_token(self, opts_doc) ==
    remove(remove(insert(opts_doc, "resumeAfter",
                         BsonDocument(unwrap(self.post_batch_resume_token))),
                  "startAfter"),
           "startAtOperationTime")

\* A variant of branch 2 that keeps the startAfter key.
use_document_token_keeping_start_after(self, opts_doc) ==
    remove(insert(opts_doc, "resumeAfter",
                  BsonDocument(unwrap(self.document_resume_token))),
           "startAtOperationTime")

\* Branch 2: document resume token.
use_document_token(self, opts_doc) ==
    remove(remove(insert(opts_doc, "resumeAfter",
                         BsonDocument(unwrap(self.document_resume_token))),
                  "startAfter"),
           "startAtOperationTime")

\* A variant of branch 3 that keeps the startAfter key.
use_start_after_keeping_key(self, opts_doc) ==
    insert(opts_doc, "resumeAfter",
           BsonDocument(unwrap(self.options.start_after)))

\* Branch 3: a startAfter originally provided by the user.
use_start_after(self, opts_doc) ==
    remove(insert(opts_doc, "resumeAfter",
                  BsonDocument(unwrap(self.options.start_after))),
           "startAfter")

\* A variant of branch 4 that also starts from the last operation time.
use_resume_after_with_optime(self, opts_doc) ==
    LET doc == insert(opts_doc, "resumeAfter",
                      BsonDocument(unwrap(self.options.resume_after)))
    IN  IF is_some(self.last_optime)
        THEN insert(doc, "startAtOperationTime", BsonTimeStamp(unwrap(self.last_optime)))
        ELSE doc

\* Branch 4: a resumeAfter originally provided by the user.
use_resume_after(self, opts_doc) ==
    insert(opts_doc, "resumeAfter",
           BsonDocument(unwrap(self.options.resume_after)))

\* Branch 5: the match on (last_optime, options.start_at_operation_time);
\* Ok(optime), or the unreachable!() panic when both (or neither) are set.
pick_optime(self) ==
    CASE is_some(self.last_optime) /\ ~is_some(self.options.start_at_operation_time)
            -> Ok(unwrap(self.last_optime))
      [] ~is_some(self.last_optime) /\ is_some(self.options.start_at_operation_time)
            -> Ok(unwrap(self.options.start_at_operation_time))
      [] OTHER -> Panic

\* A variant of the chain that looks at the document resume token before the
\* post batch resume token.
resume_directive_document_first(self, opts_doc) ==
    IF is_some(self.document_resume_token)
    THEN Ok(use_document_token(self, opts_doc))
    ELSE IF is_some(self.post_batch_resume_token) /\ self.buffer_len = 0
    THEN Ok(use_post_batch_token(self, opts_doc))
    ELSE IF is_some(self.options.start_after)
    THEN Ok(use_start_after(self, opts_doc))
    ELSE IF is_some(self.options.resume_after)
    THEN Ok(use_resume_after(self, opts_doc))
    ELSE IF is_some(self.last_optime) \/ is_some(self.options.start_at_operation_time)
    THEN LET optime == pick_optime(self)
         IN  IF optime.kind = "Ok"
             THEN Ok(insert(opts_doc, "startAtOperationTime", BsonTimeStamp(optime.val)))
             ELSE Panic
    ELSE Ok(opts_doc)

\* A variant of the chain that looks at the user's resume_after before the
\* user's start_after.
resume_directive_resume_after_first(self, opts_doc) ==
    IF is_some(self.post_batch_resume_token) /\ self.buffer_len = 0
    THEN Ok(use_post_batch_token(self, opts_doc))
    ELSE IF is_some(self.document_resume_token)
    THEN Ok(use_document_token(self, opts_doc))
    ELSE IF is_some(self.options.resume_after)
    THEN Ok(use_resume_after(self, opts_doc))
    ELSE IF is_some(self.options.start_after)
    THEN Ok(use_start_after(self, opts_doc))
    ELSE IF is_some(self.last_optime) \/ is_some(self.options.start_at_operation_time)
    THEN LET optime == pick_optime(self)
         IN  IF optime.kind = "Ok"
             THEN Ok(insert(opts_doc, "startAtOperationTime", BsonTimeStamp(optime.val)))
             ELSE Panic
    ELSE Ok(opts_doc)

\* A variant of the chain without the branch for the operation times.
resume_directive_ignoring_optime(self, opts_doc) ==
    IF is_some(self.post_batch_resume_token) /\ self.buffer_len = 0
    THEN Ok(use_post_batch_token(self, opts_doc))
    ELSE IF is_some(self.document_resume_token)
    THEN Ok(use_document_token(self, opts_doc))
    ELSE IF is_some(self.options.start_after)
    THEN Ok(use_start_after(self, opts_doc))
    ELSE IF is_some(self.options.resume_after)
    THEN Ok(use_resume_after(self, opts_doc))
    ELSE Ok(opts_doc)

\* The if / else-if chain of build() over the options document: Ok(document)
\* or the panic of branch 5.
resume_directive(self, opts_doc) ==
    IF is_some(self.post_batch_resume_token) /\ self.buffer_len = 0
    THEN Ok(use_post_batch_token(self, opts_doc))
    ELSE IF is_some(self.document_resume_token)
    THEN Ok(use_document_token(self, opts_doc))
    ELSE IF is_some(self.options.start_after)
    THEN Ok(use_start_after(self, opts_doc))
    ELSE IF is_some(self.options.resume_after)
    THEN Ok(use_resume_after(self, opts_doc))
    ELSE IF is_some(self.last_optime) \/ is_some(self.options.start_at_operation_time)
    THEN LET optime == pick_optime(self)
         IN  IF optime.kind = "Ok"
             THEN Ok(insert(opts_doc, "startAtOperationTime", BsonTimeStamp(optime.val)))
             ELSE Panic
    ELSE Ok(opts_doc)

\* doc!{"$changeStream": opts}
csdoc(opts) == [name |-> "$changeStream", spec |-> opts]

\* A variant of build that leaves the user's stages out once a pipeline has
\* been built before.
build_remembering(self) ==
    LET opts == resume_directive(self, with_cluster_flag(self, to_bson(self.options)))
    IN  IF opts.kind = "Ok"
        THEN Ok(<<csdoc(opts.val)>> \o (IF built = None THEN self.pipeline ELSE <<>>))
        ELSE Panic

\* A variant of build that puts the $changeStream stage after the user's
\* stages.
build_appending(self) ==
    LET opts == resume_directive(self, with_cluster_flag(self, to_bson(self.options)))
    IN  IF opts.kind = "Ok"
        THEN Ok(self.pipeline \o <<csdoc(opts.val)>>)
        ELSE Panic

\* PipelineBuilder::build
build(self) ==
    LET opts == resume_directive(self, with_cluster_flag(self, to_bson(self.options)))
    IN  IF opts.kind = "Ok"
        THEN Ok(<<csdoc(opts.val)>> \o self.pipeline)
        ELSE Panic

\* The $changeStream stage of a built pipeline.
stage(pipeline) == pipeline[1].spec

-----------------------------------------------------------------------------
(* Errors *)

\* Error::CodedError(code) and the other variants of Error.
CodedError(code) == [type |-> "CodedError", code |-> code]
OperationError == [type |-> "OperationError", code |-> ""]

\* An error message for when a resume token has been filtered out.
MISSING_RESUME_TOKEN_ERR ==
    "Cannot provide resume functionality when the resume token is missing."
DefaultError(msg) == [type |-> "DefaultError", code |-> msg]
\* format!("{} If you need to change the shape of the change stream document,
\* please use raw aggregations. {}", MISSING_RESUME_TOKEN_ERR, err): the
\* message as the sequence of its parts.
decode_error_message(err) ==
    <<MISSING_RESUME_TOKEN_ERR,
      " If you need to change the shape of the change stream document, please use raw aggregations. ",
      err>>

\* Error codes of the network class.
NetworkCodes == {"HostUnreachable"}
\* Error codes the model draws from.
ErrorCodes ==
    NetworkCodes \cup {"Interrupted", "CappedPositionLost", "CursorKilled", "InternalError"}

\* ErrorCode::is_network_error
is_network_error(ecode) == ecode \in NetworkCodes

\* Errors the cursor and the server can report.
Errors == {CodedError(c) : c \in ErrorCodes} \cup {OperationError}

-----------------------------------------------------------------------------
(* The collaborators: Cursor::next, command_cursor, bson::from_bson *)

\* What Cursor::next() returns: None, Some(Err(e)) or Some(Ok(document)).
NextNone == [kind |-> "None", val |-> None]
NextErr(e) == [kind |-> "Err", val |-> Some(e)]
NextOk(d) == [kind |-> "Ok", val |-> Some(d)]

\* Batches of change documents, in server order: the empty batch, a single
\* document, or the first n documents the server has to send; a change
\* document is modelled by its _id, which a projection may have stripped
\* (None).
ChangeDoc(id) == [_id |-> id]
Batches ==
    {<<>>}
    \cup {<<ChangeDoc(Some(DocTokenSeq[i]))>> : i \in 1..MaxBatch}
    \cup {[i \in 1..n |-> ChangeDoc(Some(DocTokenSeq[i]))] : n \in 2..MaxBatch}

\* Raw documents a cursor hands over: well-formed payloads, and a payload
\* whose change document has lost its _id.
RawPayload(batch, pbrt, optime) ==
    [batch |-> batch, postBatchResumeToken |-> pbrt, operationTime |-> optime]
RawDocs ==
    {RawPayload(b, p, t) : b \in Batches, p \in Option(PostBatchTokens), t \in OpTimes}
    \cup {RawPayload(<<ChangeDoc(None)>>, None, t) : t \in OpTimes}

\* What the model's cursors answer to next().
CursorResults ==
    {NextNone} \cup {NextErr(e) : e \in Errors} \cup {NextOk(d) : d \in RawDocs}

\* What command_cursor answers: the server's error, or success.
OpenOk == [kind |-> "Ok", val |-> None]
OpenErr(e) == [kind |-> "Err", val |-> Some(e)]
OpenResults == {OpenOk} \cup {OpenErr(e) : e \in {CodedError("HostUnreachable"), OperationError}}

\* Placeholders for an input the call does not consume.
Unused == [kind |-> "Unused", val |-> None]

\* bson::from_bson::<CSPayload>: fails when a required field is missing,
\* here the _id of a change document.
from_bson(doc) ==
    IF \A i \in 1..Len(doc.batch) : is_some(doc.batch[i]._id)
    THEN Ok([cursor |-> [batch |-> [i \in 1..Len(doc.batch) |-> [id |-> unwrap(doc.batch[i]._id)]],
                         post_batch_resume_token |-> doc.postBatchResumeToken],
             operation_time |-> doc.operationTime])
    ELSE Err("missing field _id")

\* Vec::reverse
RECURSIVE reverse(_)
reverse(s) == IF s = <<>> THEN <<>> ELSE Append(reverse(Tail(s)), Head(s))

-----------------------------------------------------------------------------
(* ChangeStream *)

ReadPreferences == {"Primary", "Secondary"}
CollName == "coll"
DbName == "db"

\* The options a feed of the model is built with: at most one of
\* resume_after, start_after and start_at_operation_time (the server refuses
\* the initial aggregate otherwise, and no change stream comes to exist).
Directives(o) ==
    (IF is_some(o.resume_after) THEN 1 ELSE 0)
    + (IF is_some(o.start_after) THEN 1 ELSE 0)
    + (IF is_some(o.start_at_operation_time) THEN 1 ELSE 0)
FeedOptions ==
    {o \in ChangeStreamOptions :
        /\ o.full_document = "default"
        /\ o.max_await = None
        /\ o.batch_size = None
        /\ o.collation = None
        /\ Directives(o) <= 1}

\* A variant of get_resume_token that does not look at the buffer.
get_resume_token_any_buffer(self) ==
    IF is_some(self.post_batch_resume_token)
    THEN self.post_batch_resume_token
    ELSE self.document_resume_token

\* ChangeStream::get_resume_token
get_resume_token(self) ==
    IF is_some(self.post_batch_resume_token) /\ Len(self.buffer) = 0
    THEN self.post_batch_resume_token
    ELSE self.document_resume_token

\* The aggregate command of a change stream: doc!{"aggregate": .., "pipeline": .., "cursor": {}}
aggregate_cmd(target, formatted_pipeline) ==
    [aggregate |-> target, pipeline |-> formatted_pipeline, cursor |-> "{}"]

\* The struct a constructor returns.
new_change_stream(cstype, pipeline, options, read_preference) ==
    [cstype |-> cstype,
     cursor |-> 0,
     buffer |-> <<>>,
     document_resume_token |-> None,
     post_batch_resume_token |-> None,
     pipeline |-> pipeline,
     options |-> options,
     read_preference |-> read_preference,
     last_optime |-> None,
     is_initial_agg |-> TRUE]

\* A variant of is_error_recoverable without the is_initial_agg test.
is_error_recoverable_on_init(self, err) ==
    IF err.type = "CodedError"
    THEN IF is_network_error(err.code) THEN TRUE
         ELSE err.code \notin {"Interrupted", "CappedPositionLost", "CursorKilled"}
    ELSE TRUE

\* A variant of is_error_recoverable whose denylist lacks CursorKilled.
is_error_recoverable_cursor_killed(self, err) ==
    IF self.is_initial_agg THEN FALSE
    ELSE IF err.type = "CodedError"
    THEN IF is_network_error(err.code) THEN TRUE
         ELSE err.code \notin {"Interrupted", "CappedPositionLost"}
    ELSE TRUE

\* A variant of is_error_recoverable that recovers from coded errors only.
is_error_recoverable_coded_only(self, err) ==
    IF self.is_initial_agg THEN FALSE
    ELSE IF err.type = "CodedError"
    THEN IF is_network_error(err.code) THEN TRUE
         ELSE err.code \notin {"Interrupted", "CappedPositionLost", "CursorKilled"}
    ELSE FALSE

\* A variant of is_error_recoverable that recovers from no server error but
\* those of the network class.
is_error_recoverable_network_only(self, err) ==
    IF self.is_initial_agg THEN FALSE
    ELSE IF err.type = "CodedError"
    THEN is_network_error(err.code)
    ELSE TRUE

\* ChangeStream::is_error_recoverable
is_error_recoverable(self, err) ==
    IF self.is_initial_agg THEN FALSE
    ELSE IF err.type = "CodedError"
    THEN IF is_network_error(err.code) THEN TRUE
         ELSE err.code \notin {"Interrupted", "CappedPositionLost", "CursorKilled"}
    ELSE TRUE

\* A variant of the builder of new_cursor that tells it the buffer is empty.
new_cursor_pipe_empty_buffer(self) ==
    last_optime(
        document_resume_token(
            post_batch_resume_token(
                new(self.pipeline, self.options, 0),
                self.post_batch_resume_token),
            self.document_resume_token),
        self.last_optime)

\* The builder new_cursor sets up from the state of the change stream.
new_cursor_pipe(self) ==
    last_optime(
        document_resume_token(
            post_batch_resume_token(
                new(self.pipeline, self.options, Len(self.buffer)),
                self.post_batch_resume_token),
            self.document_resume_token),
        self.last_optime)

\* A variant of the command of new_cursor that sends the rebuilt query of a
\* database change stream to the admin database.
new_cursor_cmd_admin(self) ==
    LET pipe == new_cursor_pipe(self)
        res == IF self.cstype.kind = "Deployment" THEN build(for_cluster(pipe)) ELSE build(pipe)
    IN  IF res.kind # "Ok" THEN res
        ELSE CASE self.cstype.kind = "Coll" ->
                    Ok([db |-> DbName, cmd |-> aggregate_cmd(BsonString(self.cstype.coll), res.val)])
               [] OTHER ->
                    Ok([db |-> "admin", cmd |-> aggregate_cmd(BsonI32("1"), res.val)])

\* The database and the command new_cursor sends, per kind of change stream:
\* Ok([db, cmd]) or the panic of build().
new_cursor_cmd(self) ==
    LET pipe == new_cursor_pipe(self)
        res == IF self.cstype.kind = "Deployment" THEN build(for_cluster(pipe)) ELSE build(pipe)
    IN  IF res.kind # "Ok" THEN res
        ELSE CASE self.cstype.kind = "Coll" ->
                    Ok([db |-> DbName, cmd |-> aggregate_cmd(BsonString(self.cstype.coll), res.val)])
               [] self.cstype.kind = "Db" ->
                    Ok([db |-> DbName, cmd |-> aggregate_cmd(BsonI32("1"), res.val)])
               [] self.cstype.kind = "Deployment" ->
                    Ok([db |-> "admin", cmd |-> aggregate_cmd(BsonI32("1"), res.val)])

\* A variant of new_cursor that always selects the primary.
new_cursor_primary(self, open) ==
    LET q == new_cursor_cmd(self)
    IN  IF q.kind # "Ok" THEN [res |-> Panic, query |-> None]
        ELSE [res |-> IF open.kind = "Ok" THEN Ok(self.cursor + 1)
                      ELSE Err(unwrap(open.val)),
              query |-> Some([db |-> q.val.db, cmd |-> q.val.cmd, rp |-> "Primary"])]

\* ChangeStream::new_cursor, given the server's answer to command_cursor.
\* res: Ok(cursor), Err(error) or the panic of build(); query: the database,
\* command and read preference handed to command_cursor (None when build()
\* panicked before the call).
new_cursor(self, open) ==
    LET q == new_cursor_cmd(self)
    IN  IF q.kind # "Ok" THEN [res |-> Panic, query |-> None]
        ELSE [res |-> IF open.kind = "Ok" THEN Ok(self.cursor + 1)
                      ELSE Err(unwrap(open.val)),
              query |-> Some([db |-> q.val.db, cmd |-> q.val.cmd,
                              rp |-> self.read_preference])]

\* What update_buffer yields.  res: its result; self: the change stream
\* after it; raised: where a returned error arose; pulls: the kinds of the
\* answers cursor.next() gave, in order; rebuilds: the number of new_cursor
\* calls; query: what was handed to command_cursor (Option); stored: the
\* payload it deserialized and stored (Option).
UB(res, self, raised, pulls, rebuilds, query, stored) ==
    [res |-> res, self |-> self, raised |-> raised, pulls |-> pulls,
     rebuilds |-> rebuilds, query |-> query, stored |-> stored]

\* A variant of the tail of update_buffer that stores the batch unreversed.
store_payload_unreversed(self, doc, pulls, rebuilds, query) ==
    LET change_doc == from_bson(doc)
    IN  IF change_doc.kind # "Ok"
        THEN UB(Err(DefaultError(decode_error_message(change_doc.val))), self, "decode",
                pulls, rebuilds, query, None)
        ELSE UB(Ok("()"),
                [self EXCEPT
                   !.post_batch_resume_token = change_doc.val.cursor.post_batch_resume_token,
                   !.buffer = change_doc.val.cursor.batch,
                   !.last_optime = Some(change_doc.val.operation_time),
                   !.is_initial_agg = FALSE],
                "", pulls, rebuilds, query, Some(change_doc.val))

\* A variant of the tail of update_buffer that drops a payload it cannot
\* deserialize and reports success.
store_payload_skipping_undecodable(self, doc, pulls, rebuilds, query) ==
    LET change_doc == from_bson(doc)
    IN  IF change_doc.kind # "Ok"
        THEN UB(Ok("()"), self, "", pulls, rebuilds, query, None)
        ELSE UB(Ok("()"),
                [self EXCEPT
                   !.post_batch_resume_token = change_doc.val.cursor.post_batch_resume_token,
                   !.buffer = reverse(change_doc.val.cursor.batch),
                   !.last_optime = Some(change_doc.val.operation_time),
                   !.is_initial_agg = FALSE],
                "", pulls, rebuilds, query, Some(change_doc.val))

\* A variant of the tail of update_buffer that forgets the document resume
\* token when it stores a payload.
store_payload_clearing_document_token(self, doc, pulls, rebuilds, query) ==
    LET change_doc == from_bson(doc)
    IN  IF change_doc.kind # "Ok"
        THEN UB(Err(DefaultError(decode_error_message(change_doc.val))), self, "decode",
                pulls, rebuilds, query, None)
        ELSE UB(Ok("()"),
                [self EXCEPT
                   !.post_batch_resume_token = change_doc.val.cursor.post_batch_resume_token,
                   !.document_resume_token = None,
                   !.buffer = reverse(change_doc.val.cursor.batch),
                   !.last_optime = Some(change_doc.val.operation_time),
                   !.is_initial_agg = FALSE],
                "", pulls, rebuilds, query, Some(change_doc.val))

\* A variant of the tail of update_buffer that keeps the stored post batch
\* token when the payload carries none.
store_payload_keeping_token(self, doc, pulls, rebuilds, query) ==
    LET change_doc == from_bson(doc)
    IN  IF change_doc.kind # "Ok"
        THEN UB(Err(DefaultError(decode_error_message(change_doc.val))), self, "decode",
                pulls, rebuilds, query, None)
        ELSE UB(Ok("()"),
                [self EXCEPT
                   !.post_batch_resume_token =
                       IF is_some(change_doc.val.cursor.post_batch_resume_token)
                       THEN change_doc.val.cursor.post_batch_resume_token
                       ELSE @,
                   !.buffer = reverse(change_doc.val.cursor.batch),
                   !.last_optime = Some(change_doc.val.operation_time),
                   !.is_initial_agg = FALSE],
                "", pulls, rebuilds, query, Some(change_doc.val))

\* A variant of the tail of update_buffer that leaves is_initial_agg alone.
store_payload_staying_initial(self, doc, pulls, rebuilds, query) ==
    LET change_doc == from_bson(doc)
    IN  IF change_doc.kind # "Ok"
        THEN UB(Err(DefaultError(decode_error_message(change_doc.val))), self, "decode",
                pulls, rebuilds, query, None)
        ELSE UB(Ok("()"),
                [self EXCEPT
                   !.post_batch_resume_token = change_doc.val.cursor.post_batch_resume_token,
                   !.buffer = reverse(change_doc.val.cursor.batch),
                   !.last_optime = Some(change_doc.val.operation_time)],
                "", pulls, rebuilds, query, Some(change_doc.val))

\* The tail of update_buffer: deserialize the payload, update the state.
store_payload(self, doc, pulls, rebuilds, query) ==
    LET change_doc == from_bson(doc)
    IN  IF change_doc.kind # "Ok"
        THEN UB(Err(DefaultError(decode_error_message(change_doc.val))), self, "decode",
                pulls, rebuilds, query, None)
        ELSE UB(Ok("()"),
                [self EXCEPT
                   !.post_batch_resume_token = change_doc.val.cursor.post_batch_resume_token,
                   !.buffer = reverse(change_doc.val.cursor.batch),
                   !.last_optime = Some(change_doc.val.operation_time),
                   !.is_initial_agg = FALSE],
                "", pulls, rebuilds, query, Some(change_doc.val))

\* Does update_buffer take the recovery path on this first answer of the cursor?
recovers(self, r1) ==
    /\ Len(self.buffer) = 0
    /\ r1.kind = "Err"
    /\ is_error_recoverable(self, unwrap(r1.val))

\* A variant of the retried fetch that reports an exhausted cursor as an error.
retry_fetch_none_is_error(self2, r2, query) ==
    CASE r2.kind = "Ok" -> store_payload(self2, unwrap(r2.val), <<"Err", "Ok">>, 1, query)
      [] r2.kind = "Err" ->
            UB(Err(unwrap(r2.val)), self2, "retry", <<"Err", "Err">>, 1, query, None)
      [] r2.kind = "None" ->
            UB(Err(OperationError), self2, "retry", <<"Err", "None">>, 1, query, None)

\* The retried fetch of update_buffer, on the rebuilt cursor: the match on
\* self.cursor.next() after the cursor was replaced.
retry_fetch(self2, r2, query) ==
    CASE r2.kind = "Ok" -> store_payload(self2, unwrap(r2.val), <<"Err", "Ok">>, 1, query)
      [] r2.kind = "Err" ->
            UB(Err(unwrap(r2.val)), self2, "retry", <<"Err", "Err">>, 1, query, None)
      [] r2.kind = "None" ->
            UB(Ok("()"), self2, "", <<"Err", "None">>, 1, query, None)

\* A variant of the recovery that forgets the post batch token when the
\* rebuilt cursor cannot be opened.
recover_forgetting(self, nc, r2) ==
    IF nc.res.kind = "Panic"
    THEN UB(Panic, self, "build", <<"Err">>, 1, nc.query, None)
    ELSE IF nc.res.kind = "Err"
    THEN UB(nc.res, [self EXCEPT !.post_batch_resume_token = None], "open", <<"Err">>, 1,
            nc.query, None)
    ELSE retry_fetch([self EXCEPT !.cursor = nc.res.val], r2, nc.query)

\* The recovery of update_buffer: replace the cursor by self.new_cursor()?
\* and fetch once more.  nc: what new_cursor returned.
recover(self, nc, r2) ==
    IF nc.res.kind = "Panic"
    THEN UB(Panic, self, "build", <<"Err">>, 1, nc.query, None)
    ELSE IF nc.res.kind = "Err"
    THEN UB(nc.res, self, "open", <<"Err">>, 1, nc.query, None)
    ELSE retry_fetch([self EXCEPT !.cursor = nc.res.val], r2, nc.query)

\* A variant of update_buffer that stops fetching once a call has returned
\* an error.
update_buffer_latching(self, r1, nc, r2) ==
    IF Len(self.buffer) > 0 \/ last.ret = "Err"
    THEN UB(Ok("()"), self, "", <<>>, 0, None, None)
    ELSE CASE r1.kind = "Ok" -> store_payload(self, unwrap(r1.val), <<"Ok">>, 0, None)
           [] r1.kind = "None" -> UB(Ok("()"), self, "", <<"None">>, 0, None, None)
           [] r1.kind = "Err" ->
                IF ~is_error_recoverable(self, unwrap(r1.val))
                THEN UB(Err(unwrap(r1.val)), self, "fetch", <<"Err">>, 0, None, None)
                ELSE recover(self, nc, r2)

\* A variant of update_buffer that recovers once in the life of the change
\* stream.
update_buffer_single_recovery(self, r1, nc, r2) ==
    IF Len(self.buffer) > 0
    THEN UB(Ok("()"), self, "", <<>>, 0, None, None)
    ELSE CASE r1.kind = "Ok" -> store_payload(self, unwrap(r1.val), <<"Ok">>, 0, None)
           [] r1.kind = "None" -> UB(Ok("()"), self, "", <<"None">>, 0, None, None)
           [] r1.kind = "Err" ->
                IF ~is_error_recoverable(self, unwrap(r1.val)) \/ self.cursor > 0
                THEN UB(Err(unwrap(r1.val)), self, "fetch", <<"Err">>, 0, None, None)
                ELSE recover(self, nc, r2)

\* ChangeStream::update_buffer, given the answers of the collaborators: r1 of
\* the first cursor.next(), nc of self.new_cursor(), r2 of the retried
\* cursor.next().
update_buffer(self, r1, nc, r2) ==
    IF Len(self.buffer) > 0
    THEN UB(Ok("()"), self, "", <<>>, 0, None, None)
    ELSE CASE r1.kind = "Ok" -> store_payload(self, unwrap(r1.val), <<"Ok">>, 0, None)
           [] r1.kind = "None" -> UB(Ok("()"), self, "", <<"None">>, 0, None, None)
           [] r1.kind = "Err" ->
                IF ~is_error_recoverable(self, unwrap(r1.val))
                THEN UB(Err(unwrap(r1.val)), self, "fetch", <<"Err">>, 0, None, None)
                ELSE recover(self, nc, r2)

\* A variant of pop that takes the first element of the buffer.
pop_front(buffer) ==
    IF buffer = <<>> THEN [item |-> None, rest |-> <<>>]
    ELSE [item |-> Some(buffer[1]), rest |-> Tail(buffer)]

\* Vec::pop on the (reversed) buffer: the last element, if any.
pop(buffer) ==
    IF buffer = <<>> THEN [item |-> None, rest |-> <<>>]
    ELSE [item |-> Some(buffer[Len(buffer)]), rest |-> SubSeq(buffer, 1, Len(buffer) - 1)]

\* What a call did and returned.  op: the operation; ret: "Ok", "Item",
\* "NoItem", "Err" or "Panic"; item, err: the value returned; initial,
\* buffered: is_initial_agg and the buffer's length when the call began;
\* first: the error of the first cursor.next(), if it reported one;
\* revived: the call returned a document right after a call that returned
\* "no item" or an error (set by IterNext); the rest as in UB.
Call(op, ret, item, err, initial, buffered, first, ub) ==
    [op |-> op, ret |-> ret, item |-> item, err |-> err,
     initial |-> initial, buffered |-> buffered, first |-> first,
     raised |-> ub.raised, pulls |-> ub.pulls, rebuilds |-> ub.rebuilds,
     query |-> ub.query, stored |-> ub.stored, revived |-> FALSE]

NoUB == UB(Ok("()"), None, "", <<>>, 0, None, None)
NoCall == Call("none", "", None, None, TRUE, 0, None, NoUB)

\* A variant of next that fetches on every call, whatever the buffer holds
\* (a cursor that was not asked yet has nothing available).
next_always_fetching(self, r1, nc, r2) ==
    LET ub == update_buffer([self EXCEPT !.buffer = <<>>],
                            IF r1.kind = "Unused" THEN NextNone ELSE r1, nc, r2)
        first == IF r1.kind = "Err" THEN r1.val ELSE None
        p == pop(ub.self.buffer)
        ret == IF ub.res.kind = "Err" THEN "Err"
               ELSE IF ub.res.kind = "Panic" THEN "Panic"
               ELSE IF is_some(p.item) THEN "Item"
               ELSE "NoItem"
    IN  [call |-> Call("next", ret,
                       IF ret = "Item" THEN p.item ELSE None,
                       IF ret = "Err" THEN Some(ub.res.val) ELSE None,
                       self.is_initial_agg, Len(self.buffer), first, ub),
         self |-> IF ret = "Item"
                  THEN [ub.self EXCEPT
                          !.buffer = p.rest,
                          !.document_resume_token = Some(unwrap(p.item).id)]
                  ELSE ub.self]

\* Iterator::next for ChangeStream: what the call did and returned, and the
\* change stream after it.
next(self, r1, nc, r2) ==
    LET ub == IF Len(self.buffer) = 0
              THEN update_buffer(self, r1, nc, r2)
              ELSE UB(Ok("()"), self, "", <<>>, 0, None, None)
        first == IF ub.pulls # <<>> /\ r1.kind = "Err" THEN r1.val ELSE None
        p == pop(ub.self.buffer)
        ret == IF ub.res.kind = "Err" THEN "Err"
               ELSE IF ub.res.kind = "Panic" THEN "Panic"
               ELSE IF is_some(p.item) THEN "Item"
               ELSE "NoItem"
    IN  [call |-> Call("next", ret,
                       IF ret = "Item" THEN p.item ELSE None,
                       IF ret = "Err" THEN Some(ub.res.val) ELSE None,
                       self.is_initial_agg, Len(self.buffer), first, ub),
         self |-> IF ret = "Item"
                  THEN [ub.self EXCEPT
                          !.buffer = p.rest,
                          !.document_resume_token = Some(unwrap(p.item).id)]
                  ELSE ub.self]

\* The constructors: build the initial pipeline, open the cursor, return
\* the change stream.  target: the value of the command's "aggregate" key.
watch(cstype, db, target, pipeline, options, read_preference, open) ==
    LET options_ == IF is_some(options) THEN unwrap(options) ELSE DefaultOptions
        pipeline_ == IF is_some(pipeline) THEN unwrap(pipeline) ELSE <<>>
        pipe == new(pipeline_, options_, 0)
        res == IF cstype.kind = "Deployment" THEN build(for_cluster(pipe)) ELSE build(pipe)
        query == IF res.kind = "Ok"
                 THEN Some([db |-> db, cmd |-> aggregate_cmd(target, res.val),
                            rp |-> read_preference])
                 ELSE None
    IN  IF res.kind = "Panic"
        THEN [call |-> Call(cstype.kind, "Panic", None, None, TRUE, 0, None,
                            UB(Panic, None, "build", <<>>, 0, query, None)),
              self |-> None]
        ELSE IF open.kind = "Err"
        THEN [call |-> Call(cstype.kind, "Err", None, open.val, TRUE, 0, None,
                            UB(Err(unwrap(open.val)), None, "open", <<>>, 0, query, None)),
              self |-> None]
        ELSE [call |-> Call(cstype.kind, "Ok", None, None, TRUE, 0, None,
                            UB(Ok("()"), None, "", <<>>, 0, query, None)),
              self |-> Some(new_change_stream(cstype, pipeline_, options_, read_preference))]

\* ChangeStream::watch_coll
watch_coll(coll, pipeline, options, read_preference, open) ==
    watch([kind |-> "Coll", coll |-> coll], DbName, BsonString(coll),
          pipeline, options, read_preference, open)

\* ChangeStream::watch_db
watch_db(pipeline, options, read_preference, open) ==
    watch([kind |-> "Db", coll |-> ""], DbName, BsonI32("1"),
          pipeline, options, read_preference, open)

\* ChangeStream::watch_deployment
watch_deployment(pipeline, options, read_preference, open) ==
    watch([kind |-> "Deployment", coll |-> ""], "admin", BsonI32("1"),
          pipeline, options, read_preference, open)

-----------------------------------------------------------------------------
(* ConnectionPool: the Pool behind the mutex, PooledStream, and the threads *)

\* The threads that share a ConnectionPool (and a MongoClient).
Threads == {"t1", "t2", "t3"}

\* What self.connect() can do: return a socket, return an error, or panic
\* (an SslConfig in a build without the ssl feature).
ConnectResults == {"ok", "err", "panic"}
\* connect() is not reached by the call.
NotConnecting == "unused"

\* A socket connect() returned, with the pool iteration it was connected in.
Socket(born) == [born |-> born]

\* ConnectionPool::with_size_and_ssl: the Pool it puts behind the mutex.
\* poisoned is the state of the mutex: set by a panic under the lock.
with_size_and_ssl(size) ==
    [size |-> size, len |-> 0, sockets |-> <<>>, iteration |-> 0, poisoned |-> FALSE]

\* PooledStream { socket, pool, wait_lock, iteration }
PooledStream(socket, iteration) == [socket |-> socket, iteration |-> iteration]

\* The loop of acquire_stream found nothing and waits on the condvar.
Wait == [kind |-> "Wait", val |-> ""]

\* The call has to connect: no idle socket, and len < size.
connects(locked) ==
    /\ ~locked.poisoned
    /\ locked.size # 0
    /\ Len(locked.sockets) = 0
    /\ locked.len < locked.size

\* One pass of the loop of acquire_stream, under the lock: pop an idle
\* socket, or connect a new one when len < size, or wait.
acquire_loop(locked, c) ==
    IF Len(locked.sockets) > 0
    THEN [pool |-> [locked EXCEPT !.sockets = SubSeq(@, 1, Len(@) - 1)],
          out |-> Ok(PooledStream(locked.sockets[Len(locked.sockets)], locked.iteration))]
    ELSE IF locked.len < locked.size
    THEN CASE c = "ok" ->
                [pool |-> [locked EXCEPT !.len = @ + 1],
                 out |-> Ok(PooledStream(Socket(locked.iteration), locked.iteration))]
           [] c = "err" -> [pool |-> locked, out |-> Err("IoError")]
           [] OTHER -> [pool |-> [locked EXCEPT !.poisoned = TRUE], out |-> Panic]
    ELSE [pool |-> locked, out |-> Wait]

\* ConnectionPool::acquire_stream, up to its first return or wait.
acquire_stream(locked, c) ==
    IF locked.poisoned
    THEN [pool |-> locked, out |-> Err("PoisonError")]
    ELSE IF locked.size = 0
    THEN [pool |-> locked, out |-> Err("OperationError")]
    ELSE acquire_loop(locked, c)

\* locked = try!(self.wait_lock.wait(locked)), then the loop again.
wait_returned(locked, c) ==
    IF locked.poisoned
    THEN [pool |-> locked, out |-> Err("PoisonError")]
    ELSE acquire_loop(locked, c)

\* A variant of drop that returns the socket whatever its iteration.
drop_any_iteration(locked, self) ==
    IF ~locked.poisoned
    THEN [pool |-> [locked EXCEPT !.sockets = Append(@, self.socket)], notify |-> TRUE]
    ELSE [pool |-> locked, notify |-> FALSE]

\* Drop for PooledStream: the socket goes back to the idle list and one
\* waiter is notified when the stream is of the pool's iteration; otherwise
\* the socket is closed.
drop(locked, self) ==
    IF ~locked.poisoned /\ self.iteration = locked.iteration
    THEN [pool |-> [locked EXCEPT !.sockets = Append(@, self.socket)], notify |-> TRUE]
    ELSE [pool |-> locked, notify |-> FALSE]

\* ConnectionPool::clear
clear(locked) ==
    IF locked.poisoned THEN locked
    ELSE [locked EXCEPT !.iteration = @ + 1, !.sockets = <<>>, !.len = 0]

\* ConnectionPool::set_size
set_size(locked, size) ==
    IF size < 1 THEN [pool |-> locked, out |-> Err("ArgumentError")]
    ELSE IF locked.poisoned THEN [pool |-> locked, out |-> Err("PoisonError")]
    ELSE [pool |-> [locked EXCEPT !.size = size], out |-> Ok("()")]

\* A thread: where it is (idle, waiting on the condvar, woken, holding a
\* stream, or dead after a panic), the stream it holds, and what its last
\* acquire_stream or drop did.
Thread(pc, stream, res) == [pc |-> pc, stream |-> stream, res |-> res]
NoStream == Thread("idle", None, "")

\* The thread after a pass of acquire_stream ended with out.
after_acquire(out) ==
    CASE out.kind = "Ok" -> Thread("holding", Some(out.val), "Ok")
      [] out.kind = "Err" -> Thread("idle", None, out.val)
      [] out.kind = "Panic" -> Thread("panicked", None, "Panic")
      [] OTHER -> Thread("waiting", None, "")

-----------------------------------------------------------------------------
(* MongoClient: the request-id counter *)

\* The widths of isize and of i32, scaled down: the counter has more bits
\* than the id get_req_id returns.
IsizeBits == 3
I32Bits == 2

\* ATOMIC_ISIZE_INIT
ATOMIC_ISIZE_INIT == 0

\* 2^n
Pow2(n) == IF n = 0 THEN 1 ELSE IF n = 1 THEN 2 ELSE IF n = 2 THEN 4 ELSE IF n = 3 THEN 8 ELSE 16

\* The value of the low bits bits of two's complement x.
wrap(x, bits) ==
    LET u == x % Pow2(bits)
    IN  IF u >= Pow2(bits - 1) THEN u - Pow2(bits) ELSE u

\* x as i32: the low bits of the isize.
as_i32(x) == wrap(x, I32Bits)

\* A variant of fetch_add that stores nothing.
fetch_add_load_only(counter, n) == [old |-> counter, new |-> counter]

\* AtomicIsize::fetch_add(n, SeqCst): returns the old value; the addition
\* wraps around.
fetch_add(counter, n) == [old |-> counter, new |-> wrap(counter + n, IsizeBits)]

\* MongoClient::get_req_id: the id returned and the counter after the call.
get_req_id(counter) ==
    [id |-> as_i32(fetch_add(counter, 1).old), req_id |-> fetch_add(counter, 1).new]

-----------------------------------------------------------------------------
(* The change stream as a state machine: a constructor, then next() calls *)

\* The arguments the model's callers construct a change stream with.
OptionsArgs == {None} \cup {Some(o) : o \in FeedOptions}
\* The pipeline and the read preference are data a change stream carries and
\* hands back to command_cursor; the callers pass them in these pairs.
CallerArgs ==
    {[pipeline |-> None, rp |-> "Primary"],
     [pipeline |-> Some(<<MatchStage, ProjectStage>>), rp |-> "Secondary"]}

Constructed(w) ==
    /\ cs' = w.self
    /\ last' = w.call
    /\ aborted' = (w.call.ret = "Panic")
    /\ UNCHANGED <<pb, built, yielded, payload>>
    /\ UNCHANGED <<poolvars, clientvars>>

CanConstruct ==
    /\ cs = None
    /\ pb = None
    /\ built = None
    /\ ~aborted

WatchColl ==
    /\ CanConstruct
    /\ \E a \in CallerArgs, o \in OptionsArgs, open \in OpenResults :
          Constructed(watch_coll(CollName, a.pipeline, o, a.rp, open))

WatchDb ==
    /\ CanConstruct
    /\ \E a \in CallerArgs, o \in OptionsArgs, open \in OpenResults :
          Constructed(watch_db(a.pipeline, o, a.rp, open))

WatchDeployment ==
    /\ CanConstruct
    /\ \E a \in CallerArgs, o \in OptionsArgs, open \in OpenResults :
          Constructed(watch_deployment(a.pipeline, o, a.rp, open))

\* One call of Iterator::next, with the answers of the cursor and the server:
\* r1 of the first cursor.next(), open of command_cursor (so nc of
\* new_cursor) and r2 of the retried cursor.next(), each drawn only when the
\* call gets to ask for it.
IterNext ==
    /\ is_some(cs)
    /\ ~aborted
    /\ unwrap(cs).cursor < MaxCursors
    /\ \E self \in {unwrap(cs)} :
       \E r1 \in (IF Len(self.buffer) = 0 THEN CursorResults ELSE {Unused}) :
       \E open \in (IF recovers(self, r1) THEN OpenResults ELSE {Unused}) :
       \E nc \in {IF recovers(self, r1) THEN new_cursor(self, open)
                  ELSE [res |-> Unused, query |-> None]} :
       \E r2 \in (IF nc.res.kind = "Ok" THEN CursorResults ELSE {Unused}) :
       \E n \in {next(self, r1, nc, r2)} :
          /\ cs' = Some(n.self)
          /\ last' = [n.call EXCEPT !.revived =
                          /\ last.op = "next"
                          /\ last.ret \in {"NoItem", "Err"}
                          /\ n.call.ret = "Item"]
          /\ yielded' = IF n.call.ret = "Item" THEN n.call.item ELSE yielded
          /\ payload' = IF is_some(n.call.stored) THEN n.call.stored ELSE payload
          /\ aborted' = (n.call.ret = "Panic")
    /\ UNCHANGED <<pb, built, poolvars, clientvars>>

Init ==
    /\ pb = None
    /\ built = None
    /\ cs = None
    /\ last = NoCall
    /\ yielded = None
    /\ payload = None
    /\ aborted = FALSE
    /\ pool = None
    /\ streams = [t \in Threads |-> NoStream]
    /\ req_id = ATOMIC_ISIZE_INIT
    /\ ids = <<>>

Next ==
    \/ WatchColl
    \/ WatchDb
    \/ WatchDeployment
    \/ IterNext

Spec == Init /\ [][Next]_vars

-----------------------------------------------------------------------------
(* The builder as a state machine: new, the setters, build *)

pb_new ==
    /\ pb = None
    /\ built = None
    /\ cs = None
    /\ last = NoCall
    /\ \E p \in Pipelines, o \in ChangeStreamOptions, n \in 0..MaxBatch :
          pb' = Some(new(p, o, n))
    /\ UNCHANGED <<built, cs, last, yielded, payload, aborted, poolvars, clientvars>>

pb_for_cluster ==
    /\ is_some(pb)
    /\ ~unwrap(pb).for_cluster
    /\ pb' = Some(for_cluster(unwrap(pb)))
    /\ UNCHANGED <<built, cs, last, yielded, payload, aborted, poolvars, clientvars>>

pb_document_resume_token ==
    /\ is_some(pb)
    /\ \E opt \in Option(Tokens) :
          /\ opt # unwrap(pb).document_resume_token
          /\ pb' = Some(document_resume_token(unwrap(pb), opt))
    /\ UNCHANGED <<built, cs, last, yielded, payload, aborted, poolvars, clientvars>>

pb_post_batch_resume_token ==
    /\ is_some(pb)
    /\ \E opt \in Option(Tokens) :
          /\ opt # unwrap(pb).post_batch_resume_token
          /\ pb' = Some(post_batch_resume_token(unwrap(pb), opt))
    /\ UNCHANGED <<built, cs, last, yielded, payload, aborted, poolvars, clientvars>>

pb_last_optime ==
    /\ is_some(pb)
    /\ \E opt \in Option(OpTimes) :
          /\ opt # unwrap(pb).last_optime
          /\ pb' = Some(last_optime(unwrap(pb), opt))
    /\ UNCHANGED <<built, cs, last, yielded, payload, aborted, poolvars, clientvars>>

\* build(self) consumes the builder.
pb_build ==
    /\ is_some(pb)
    /\ LET res == build(unwrap(pb))
       IN  /\ built' = Some([from |-> unwrap(pb), res |-> res, again |-> None])
           /\ aborted' = (res.kind = "Panic")
    /\ pb' = None
    /\ UNCHANGED <<cs, last, yielded, payload, poolvars, clientvars>>

\* A second builder set up like the one the last build() consumed (new,
\* for_cluster, the setters), and built.
pb_build_again ==
    /\ is_some(built)
    /\ pb = None
    /\ unwrap(built).again = None
    /\ LET b == unwrap(built).from
           fresh == new(b.pipeline, b.options, b.buffer_len)
           pipe == last_optime(
                       document_resume_token(
                           post_batch_resume_token(
                               IF b.for_cluster THEN for_cluster(fresh) ELSE fresh,
                               b.post_batch_resume_token),
                           b.document_resume_token),
                       b.last_optime)
           res == build(pipe)
       IN  /\ built' = Some([unwrap(built) EXCEPT !.again = Some(res)])
           /\ aborted' = (aborted \/ res.kind = "Panic")
    /\ UNCHANGED <<pb, cs, last, yielded, payload, poolvars, clientvars>>

InitBuild == Init

NextBuild ==
    \/ pb_new
    \/ pb_for_cluster
    \/ pb_document_resume_token
    \/ pb_post_batch_resume_token
    \/ pb_last_optime
    \/ pb_build
    \/ pb_build_again

SpecBuild == InitBuild /\ [][NextBuild]_vars

-----------------------------------------------------------------------------
(* The connection pool as a state machine: threads acquire and drop streams, *)
(* the pool is cleared and resized                                           *)

\* The threads waiting on the condvar.
Waiters == {t \in Threads : streams[t].pc = "waiting"}

\* ConnectionPool::with_size(host, size)
WithSize ==
    /\ pool = None
    /\ pb = None
    /\ built = None
    /\ cs = None
    /\ ids = <<>>
    /\ \E size \in 0..MaxSize : pool' = Some(with_size_and_ssl(size))
    /\ UNCHANGED <<feedvars, streams, clientvars>>

\* Thread t calls acquire_stream; connect(), when reached, does one of C.
AcquireStreamWith(t, C) ==
    /\ is_some(pool)
    /\ streams[t].pc = "idle"
    /\ \E c \in (IF connects(unwrap(pool)) THEN C ELSE {NotConnecting}) :
       \E r \in {acquire_stream(unwrap(pool), c)} :
          /\ pool' = Some(r.pool)
          /\ streams' = [streams EXCEPT ![t] = after_acquire(r.out)]
    /\ UNCHANGED <<feedvars, clientvars>>

AcquireStream(t) == AcquireStreamWith(t, ConnectResults)

\* Thread t, notified (or woken spuriously), gets the lock back and goes
\* round the loop.
WaitReturnedWith(t, C) ==
    /\ is_some(pool)
    /\ streams[t].pc = "woken"
    /\ \E c \in (IF connects(unwrap(pool)) THEN C ELSE {NotConnecting}) :
       \E r \in {wait_returned(unwrap(pool), c)} :
          /\ pool' = Some(r.pool)
          /\ streams' = [streams EXCEPT ![t] = after_acquire(r.out)]
    /\ UNCHANGED <<feedvars, clientvars>>

WaitReturned(t) == WaitReturnedWith(t, ConnectResults)

\* Condvar::wait may return without a notification.
SpuriousWakeup(t) ==
    /\ streams[t].pc = "waiting"
    /\ streams' = [streams EXCEPT ![t].pc = "woken"]
    /\ UNCHANGED <<feedvars, pool, clientvars>>

\* Thread t drops its PooledStream; notify_one wakes one waiter, if any.
DropStream(t) ==
    /\ is_some(pool)
    /\ streams[t].pc = "holding"
    /\ \E r \in {drop(unwrap(pool), unwrap(streams[t].stream))} :
       \E w \in (IF r.notify /\ Waiters # {} THEN Waiters ELSE {t}) :
          /\ pool' = Some(r.pool)
          /\ streams' = [u \in Threads |->
                            IF u = t
                            THEN Thread("idle", None,
                                        IF r.notify THEN "Returned" ELSE "Closed")
                            ELSE IF u = w THEN [streams[u] EXCEPT !.pc = "woken"]
                            ELSE streams[u]]
    /\ UNCHANGED <<feedvars, clientvars>>

\* clear(), called by a server monitor.
Clear ==
    /\ is_some(pool)
    /\ unwrap(pool).iteration < MaxClears
    /\ pool' = Some(clear(unwrap(pool)))
    /\ UNCHANGED <<feedvars, streams, clientvars>>

\* set_size(size)
SetSize ==
    /\ is_some(pool)
    /\ \E size \in 0..MaxSize : pool' = Some(set_size(unwrap(pool), size).pool)
    /\ UNCHANGED <<feedvars, streams, clientvars>>

NextPool ==
    \/ WithSize
    \/ \E t \in Threads : AcquireStream(t)
    \/ \E t \in Threads : WaitReturned(t)
    \/ \E t \in Threads : SpuriousWakeup(t)
    \/ \E t \in Threads : DropStream(t)
    \/ Clear
    \/ SetSize

SpecPool == Init /\ [][NextPool]_vars

\* The pool when connecting always succeeds, every thread that can take a
\* step of acquire_stream takes it, and every holder drops its stream.
AcquireStreamConnected(t) == AcquireStreamWith(t, {"ok"})
WaitReturnedConnected(t) == WaitReturnedWith(t, {"ok"})

NextPoolFair ==
    \/ WithSize
    \/ \E t \in Threads : AcquireStreamConnected(t)
    \/ \E t \in Threads : WaitReturnedConnected(t)
    \/ \E t \in Threads : SpuriousWakeup(t)
    \/ \E t \in Threads : DropStream(t)
    \/ Clear
    \/ SetSize

SpecPoolFair ==
    /\ Init
    /\ [][NextPoolFair]_vars
    /\ \A t \in Threads : WF_vars(WaitReturnedConnected(t)) /\ WF_vars(DropStream(t))

-----------------------------------------------------------------------------
(* The client as a state machine: threads call get_req_id *)

\* Thread t calls get_req_id: one atomic fetch_add.
GetReqId(t) ==
    /\ pool = None
    /\ pb = None
    /\ built = None
    /\ cs = None
    /\ Len(ids) < MaxCalls
    /\ \E r \in {get_req_id(req_id)} :
          /\ req_id' = r.req_id
          /\ ids' = Append(ids, [thread |-> t, id |-> r.id])
    /\ UNCHANGED <<feedvars, poolvars>>

NextClient == \E t \in Threads : GetReqId(t)

SpecClient == Init /\ [][NextClient]_vars

-----------------------------------------------------------------------------
(* Properties of the change stream and of the builder *)

\* The error is a server error of the network class.
IsNetworkError(e) == e.type = "CodedError" /\ is_network_error(e.code)
\* The error is one of the three server errors the change stream never retries.
IsDenylisted(e) ==
    e.type = "CodedError" /\ e.code \in {"Interrupted", "CappedPositionLost", "CursorKilled"}
\* The last call was a next() that began in Streaming state and whose first
\* cursor.next() reported an error.
StreamingError ==
    last.op = "next" /\ ~last.initial /\ is_some(last.first)
\* The $changeStream stage of the query a call handed to command_cursor.
QueryStage(call) == stage(unwrap(call.query).cmd.pipeline)
\* The id of the document the iterator last returned (Option).
YieldedId == IF is_some(yielded) THEN Some(unwrap(yielded).id) ELSE None

\* C1: in every reachable state of a change stream, get_resume_token() is the
\* post batch resume token when one is stored and the buffer is empty, and
\* otherwise the document resume token, which is the _id of the document the
\* iterator last returned, or None if it has returned none yet.
C1_GetResumeToken ==
    is_some(cs) =>
        LET self == unwrap(cs)
        IN  /\ self.document_resume_token = YieldedId
            /\ get_resume_token(self) =
                  IF is_some(self.post_batch_resume_token) /\ Len(self.buffer) = 0
                  THEN self.post_batch_resume_token
                  ELSE YieldedId

\* C1 witness: a post batch token is stored, the buffer is empty and a
\* document has been returned: the token is the post batch token.
C1_Witness ==
    /\ is_some(cs)
    /\ is_some(yielded)
    /\ is_some(unwrap(cs).post_batch_resume_token)
    /\ unwrap(cs).buffer = <<>>
    /\ get_resume_token(unwrap(cs)) = unwrap(cs).post_batch_resume_token
    /\ get_resume_token(unwrap(cs)) # YieldedId

\* C2: right after next() returns a document, that document is the next one
\* of the stored batch in server order, a call that began with documents
\* buffered pulled nothing from the cursor, and the resume token is the
\* document's _id while documents of the batch remain, and the batch's post
\* batch token (if it has one) once the batch is drained.
C2_TokenAfterItem ==
    (last.op = "next" /\ last.ret = "Item") =>
        /\ is_some(cs)
        /\ is_some(payload)
        /\ LET self == unwrap(cs)
               item == unwrap(last.item)
               batch == unwrap(payload).cursor.batch
               pbrt == unwrap(payload).cursor.post_batch_resume_token
               left == Len(self.buffer)
           IN  /\ left < Len(batch)
               /\ item = batch[Len(batch) - left]
               /\ (last.buffered > 0 => last.pulls = <<>>)
               /\ get_resume_token(self) =
                     IF left > 0 THEN Some(item.id)
                     ELSE IF is_some(pbrt) THEN pbrt
                     ELSE Some(item.id)

\* C2 witness: the batch A(t1), B(t2) with post batch token p1 was stored;
\* the second next() has just returned B without pulling from the cursor and
\* the token is p1.
C2_Witness ==
    /\ last.op = "next"
    /\ last.ret = "Item"
    /\ unwrap(last.item).id = "t2"
    /\ last.buffered = 1
    /\ last.pulls = <<>>
    /\ is_some(payload)
    /\ unwrap(payload).cursor.batch = <<[id |-> "t1"], [id |-> "t2"]>>
    /\ unwrap(payload).cursor.post_batch_resume_token = Some("p1")
    /\ unwrap(cs).buffer = <<>>
    /\ get_resume_token(unwrap(cs)) = Some("p1")

\* C3: a build() from a builder holding post batch resume token T and buffer
\* length 0 returns a stage with resumeAfter = T and neither a startAfter nor
\* a startAtOperationTime key, whatever the document token, the last optime
\* and the options are.
C3_PostBatchTokenFirst ==
    is_some(built) =>
        LET b == unwrap(built).from
            res == unwrap(built).res
        IN  (is_some(b.post_batch_resume_token) /\ b.buffer_len = 0) =>
               /\ res.kind = "Ok"
               /\ stage(res.val).resumeAfter = BsonDocument(unwrap(b.post_batch_resume_token))
               /\ ~contains_key(stage(res.val), "startAfter")
               /\ ~contains_key(stage(res.val), "startAtOperationTime")

\* C3 witness: a build with a post batch token and an empty buffer, while a
\* document token, a last optime and all three directives of the options
\* are set as well.
C3_Witness ==
    /\ is_some(built)
    /\ LET b == unwrap(built).from
       IN  /\ is_some(b.post_batch_resume_token)
           /\ b.buffer_len = 0
           /\ is_some(b.document_resume_token)
           /\ b.document_resume_token # b.post_batch_resume_token
           /\ is_some(b.last_optime)
           /\ is_some(b.options.resume_after)
           /\ is_some(b.options.start_after)
           /\ is_some(b.options.start_at_operation_time)
    /\ unwrap(built).res.kind = "Ok"

\* C4: a build() to which branch 1 does not apply (no post batch token, or a
\* buffer length other than 0) and which holds document token D returns a
\* stage with resumeAfter = D and neither a startAfter nor a
\* startAtOperationTime key, whatever the options and the last optime are.
C4_DocumentTokenSecond ==
    is_some(built) =>
        LET b == unwrap(built).from
            res == unwrap(built).res
        IN  (/\ ~(is_some(b.post_batch_resume_token) /\ b.buffer_len = 0)
             /\ is_some(b.document_resume_token)) =>
               /\ res.kind = "Ok"
               /\ stage(res.val).resumeAfter = BsonDocument(unwrap(b.document_resume_token))
               /\ ~contains_key(stage(res.val), "startAfter")
               /\ ~contains_key(stage(res.val), "startAtOperationTime")

\* C4 witness: a build with a document token and a post batch token that
\* does not apply because the buffer is not empty, while a last optime and
\* all three directives of the options are set.
C4_Witness ==
    /\ is_some(built)
    /\ LET b == unwrap(built).from
       IN  /\ is_some(b.post_batch_resume_token)
           /\ b.buffer_len > 0
           /\ is_some(b.document_resume_token)
           /\ b.document_resume_token # b.post_batch_resume_token
           /\ is_some(b.last_optime)
           /\ is_some(b.options.resume_after)
           /\ is_some(b.options.start_after)
           /\ is_some(b.options.start_at_operation_time)
    /\ unwrap(built).res.kind = "Ok"

\* C5: a next() that began in Initializing state and whose cursor reported an
\* error, of any kind, returns that error; it pulls once, builds no query,
\* opens no cursor and leaves the original cursor in place.
C5_NoRetryOnInit ==
    (last.op = "next" /\ last.initial /\ is_some(last.first)) =>
        /\ last.ret = "Err"
        /\ last.err = last.first
        /\ last.raised = "fetch"
        /\ last.pulls = <<"Err">>
        /\ last.rebuilds = 0
        /\ last.query = None
        /\ unwrap(cs).cursor = 0

\* C5 witness: the first next() of a change stream met an error that would
\* be recoverable in Streaming state, and returned it.
C5_Witness ==
    /\ last.op = "next"
    /\ last.initial
    /\ is_some(last.first)
    /\ IsNetworkError(unwrap(last.first))
    /\ last.ret = "Err"

\* C6: a next() that began in Streaming state and whose cursor reported a
\* network error rebuilds once, hands one query to command_cursor, pulls
\* exactly once more from the cursor it got, returns the error of that pull
\* if it fails, and opens nothing further.
C6_RetryOnce ==
    (StreamingError /\ IsNetworkError(unwrap(last.first))) =>
        /\ last.ret \in {"Item", "NoItem", "Err"}
        /\ last.rebuilds = 1
        /\ is_some(last.query)
        /\ (last.raised # "open" => Len(last.pulls) = 2)
        /\ (last.raised = "open" => Len(last.pulls) = 1)
        /\ (last.pulls = <<"Err", "Err">> => last.ret = "Err" /\ last.raised = "retry")

\* C7: a next() that began in Streaming state and whose cursor reported
\* Interrupted, CappedPositionLost or CursorKilled returns that same error;
\* it pulls once, builds no query and opens no cursor.
C7_Denylist ==
    (StreamingError /\ IsDenylisted(unwrap(last.first))) =>
        /\ last.ret = "Err"
        /\ last.err = last.first
        /\ last.raised = "fetch"
        /\ last.pulls = <<"Err">>
        /\ last.rebuilds = 0
        /\ last.query = None

\* C7 witness: in Streaming state the cursor reported CursorKilled and the
\* call returned it.
C7_Witness ==
    /\ StreamingError
    /\ unwrap(last.first) = CodedError("CursorKilled")
    /\ last.ret = "Err"
    /\ last.err = Some(CodedError("CursorKilled"))

\* The retried fetch of the call stored a non-empty batch.
RetryDelivered(call) ==
    /\ call.pulls = <<"Err", "Ok">>
    /\ is_some(call.stored)
    /\ unwrap(call.stored).cursor.batch # <<>>
\* The call returned the first document of the batch its retried fetch stored.
ReturnedFirst(call) ==
    /\ call.ret = "Item"
    /\ call.err = None
    /\ call.item = Some(unwrap(call.stored).cursor.batch[1])
\* A step that is a next() of a change stream that has returned a document,
\* and whose cursor reports a network error.
C8_Case ==
    /\ is_some(cs)
    /\ is_some(yielded)
    /\ last'.op = "next"
    /\ is_some(last'.first)
    /\ IsNetworkError(unwrap(last'.first))

\* C8 as stated: once the change stream has returned A with _id t1, a network
\* error on the next fetch makes it open a rebuilt cursor whose query has
\* resumeAfter = t1, and the call returns the next document when the retried
\* fetch delivers one.
C8_ResumeAfterLastItem ==
    [][C8_Case =>
          /\ is_some(last'.query)
          /\ QueryStage(last').resumeAfter = BsonDocument(unwrap(yielded).id)
          /\ (RetryDelivered(last') => ReturnedFirst(last'))]_vars

\* C8 amended: the rebuilt query has resumeAfter = the stored post batch
\* resume token when there is one, and resumeAfter = t1 otherwise.
C8_ResumeAfterToken ==
    [][C8_Case =>
          /\ is_some(last'.query)
          /\ QueryStage(last').resumeAfter =
                BsonDocument(IF is_some(unwrap(cs).post_batch_resume_token)
                             THEN unwrap(unwrap(cs).post_batch_resume_token)
                             ELSE unwrap(yielded).id)
          /\ (RetryDelivered(last') => ReturnedFirst(last'))]_vars

\* C8 witness: after a network error in Streaming state the query carried
\* resumeAfter = t1, the retried fetch delivered and the call returned a
\* document.
C8_Witness ==
    /\ StreamingError
    /\ IsNetworkError(unwrap(last.first))
    /\ is_some(last.query)
    /\ QueryStage(last).resumeAfter = BsonDocument("t1")
    /\ RetryDelivered(last)
    /\ ReturnedFirst(last)

\* C9: when the cursor reports, in Streaming state, an error that is not on
\* the denylist, an error the call returns is never that error: it arose
\* opening the rebuilt cursor or in the retried fetch (its pull or the
\* decoding of its payload), after one rebuild.
C9_TransientAbsorbed ==
    (StreamingError /\ ~IsDenylisted(unwrap(last.first)) /\ last.ret = "Err") =>
        /\ last.raised \in {"open", "retry", "decode"}
        /\ last.rebuilds = 1
        /\ (last.raised = "open" => last.pulls = <<"Err">>)
        /\ (last.raised = "retry" => last.pulls = <<"Err", "Err">>)
        /\ (last.raised = "decode" => last.pulls = <<"Err", "Ok">>)

\* C9 witness: a transient error was absorbed, and the retried fetch failed
\* with an error of its own, which the call returned.
C9_Witness ==
    /\ StreamingError
    /\ unwrap(last.first) = OperationError
    /\ last.ret = "Err"
    /\ last.raised = "retry"
    /\ last.err = Some(CodedError("HostUnreachable"))

\* C10: a next() whose cursor, the live one or the rebuilt one, answered its
\* last pull with "nothing available" returns no item and no error.
C10_NoItemIsNoError ==
    (last.op = "next" /\ last.pulls # <<>> /\ last.pulls[Len(last.pulls)] = "None") =>
        /\ last.ret = "NoItem"
        /\ last.err = None
        /\ last.item = None

\* C10 witness: in Streaming state the rebuilt cursor had nothing available
\* and the call returned no item.
C10_Witness ==
    /\ StreamingError
    /\ last.pulls = <<"Err", "None">>
    /\ last.ret = "NoItem"

\* The last pull of the call handed over a document that was not stored:
\* its deserialization failed.
DecodeFailed(call) ==
    /\ call.op = "next"
    /\ call.pulls # <<>>
    /\ call.pulls[Len(call.pulls)] = "Ok"
    /\ call.stored = None

\* C11: a next() whose fetched payload fails to deserialize returns an error
\* whose message starts with MISSING_RESUME_TOKEN_ERR; the failure is never
\* recovered from: nothing is pulled and no cursor is opened after it, in
\* Initializing or Streaming state, on the original or the rebuilt cursor.
C11_DecodeFailureFatal ==
    DecodeFailed(last) =>
        /\ last.ret = "Err"
        /\ unwrap(last.err).type = "DefaultError"
        /\ unwrap(last.err).code[1] = MISSING_RESUME_TOKEN_ERR
        /\ last.raised = "decode"
        /\ last.pulls \in {<<"Ok">>, <<"Err", "Ok">>}
        /\ last.rebuilds = Len(last.pulls) - 1
        /\ unwrap(cs).buffer = <<>>

\* C11 witness: in Streaming state the payload of the rebuilt cursor failed
\* to deserialize and the call returned the error.
C11_Witness ==
    /\ StreamingError
    /\ DecodeFailed(last)
    /\ last.pulls = <<"Err", "Ok">>
    /\ last.ret = "Err"
    /\ unwrap(last.err).code[1] = MISSING_RESUME_TOKEN_ERR

\* C12: every next() call returns an item, "no item" or an error; it never
\* ends any other way, whatever the options and the answers of the cursor.
C12_ThreeOutcomes ==
    last.op = "next" => last.ret \in {"Item", "NoItem", "Err"}

\* C17: every build() returns a pipeline, whatever the options, the tokens,
\* the buffer length and the last optime are.
C17_BuildTotal ==
    is_some(built) => unwrap(built).res.kind = "Ok"

\* The documents a buffer holds, in the order next() will return them.
Pending(self) == reverse(self.buffer)
\* The document a call returned, as a sequence of length 0 or 1.
Returned(call) == IF call.ret = "Item" THEN <<unwrap(call.item)>> ELSE <<>>
\* The batch a call fetched and stored, in server order (empty if it stored none).
Fetched(call) == IF is_some(call.stored) THEN unwrap(call.stored).cursor.batch ELSE <<>>

\* C13: a change stream starts with nothing buffered, and every call keeps
\* the books: what it returned followed by what is pending after it equals
\* what was pending before it followed by the batch it fetched.  So the
\* documents returned so far followed by the pending ones are always the
\* concatenation of the fetched batches: none skipped, duplicated or
\* reordered.
C13_NoItemLost ==
    [][/\ (cs = None /\ is_some(cs')) => Pending(unwrap(cs')) = <<>>
       /\ (is_some(cs) /\ is_some(cs')) =>
             Returned(last') \o Pending(unwrap(cs')) = Pending(unwrap(cs)) \o Fetched(last')]_vars

\* C13 witness: a call fetched the batch A(t1), B(t2), returned A and left B
\* pending, after an earlier document had been returned.
C13_Witness ==
    /\ is_some(cs)
    /\ last.op = "next"
    /\ last.pulls = <<"Ok">>
    /\ ~last.initial
    /\ Fetched(last) = <<[id |-> "t1"], [id |-> "t2"]>>
    /\ Returned(last) = <<[id |-> "t1"]>>
    /\ Pending(unwrap(cs)) = <<[id |-> "t2"]>>

\* C14: a call that pulled from the cursor, rebuilt the query or opened a
\* cursor began with an empty buffer.
C14_FetchOnlyWhenEmpty ==
    (last.op = "next" /\ (last.pulls # <<>> \/ last.rebuilds > 0 \/ is_some(last.query))) =>
        last.buffered = 0

\* C14 witness: a call that began with an empty buffer met an error, rebuilt
\* the cursor and fetched a batch of two, of which one document is buffered.
C14_Witness ==
    /\ last.op = "next"
    /\ last.pulls = <<"Err", "Ok">>
    /\ last.rebuilds = 1
    /\ last.buffered = 0
    /\ is_some(payload)
    /\ Len(unwrap(payload).cursor.batch) = 2
    /\ Len(unwrap(cs).buffer) = 1

\* The stage gives the key a value: the key is there and is not null.
has_value(doc, k) == contains_key(doc, k) /\ doc[k] # BsonNull
\* The resume directives a stage carries.
ResumeDirectives(doc) ==
    {k \in {"resumeAfter", "startAfter", "startAtOperationTime"} : has_value(doc, k)}
\* The last build() returned a pipeline.
BuiltOk == is_some(built) /\ unwrap(built).res.kind = "Ok"
\* The $changeStream stage of the last build().
BuiltStage == stage(unwrap(built).res.val)

\* C15: the stage of every pipeline build() returns carries at most one of
\* resumeAfter, startAfter and startAtOperationTime, whatever the options
\* and the resume state are.
C15_OneDirective ==
    BuiltOk => Cardinality(ResumeDirectives(BuiltStage)) <= 1

\* C16: the stage of a pipeline build() returns never carries both a
\* startAfter token and a resumeAfter token, whatever the options (also
\* those that set both start_after and resume_after) and the resume state.
C16_NeverBothTokens ==
    BuiltOk => ~(has_value(BuiltStage, "startAfter") /\ has_value(BuiltStage, "resumeAfter"))

\* C16 witness: options that set both start_after and resume_after, and no
\* resume token: the stage has resumeAfter = the start_after token and no
\* startAfter key.
C16_Witness ==
    /\ BuiltOk
    /\ LET b == unwrap(built).from
       IN  /\ is_some(b.options.start_after)
           /\ is_some(b.options.resume_after)
           /\ b.document_resume_token = None
           /\ b.post_batch_resume_token = None
           /\ BuiltStage.resumeAfter = BsonDocument(unwrap(b.options.start_after))
    /\ ~contains_key(BuiltStage, "startAfter")

\* C18: the stage of a pipeline build() returns gives a value to no keys
\* other than fullDocument, resumeAfter, startAfter, startAtOperationTime
\* and allChangesForCluster: maxAwaitTimeMS, batchSize and collation are
\* never set on it.
C18_StageKeys ==
    BuiltOk =>
        {k \in keys(BuiltStage) : has_value(BuiltStage, k)} \subseteq
            {"fullDocument", "resumeAfter", "startAfter", "startAtOperationTime",
             "allChangesForCluster"}

C20_NoTerminalState ==
    /\ []((/\ is_some(cs)
           /\ last.op = "next"
           /\ last.ret \in {"NoItem", "Err"}
           /\ unwrap(cs).cursor < MaxCursors) => ENABLED IterNext)
    /\ [][(is_some(cs) /\ last.op = "next" /\ last.ret \in {"NoItem", "Err"}) =>
             /\ last'.op = "next"
             /\ last'.buffered = 0
             /\ last'.pulls # <<>>
             /\ (Fetched(last') # <<>> =>
                    /\ last'.ret = "Item"
                    /\ Returned(last') = <<Fetched(last')[1]>>)]_vars

\* C20 witness: right after a call that returned "no item" or an error, a
\* call pulled from a cursor that had replaced the original one and returned
\* a document.
C20_Witness ==
    /\ last.op = "next"
    /\ last.revived
    /\ last.ret = "Item"
    /\ last.pulls = <<"Ok">>
    /\ unwrap(cs).cursor = 1

\* The builder the last build() consumed.
BuiltFrom == unwrap(built).from
\* Rule 1 or rule 2 of build() applies to the builder.
TokenRule(b) ==
    \/ is_some(b.post_batch_resume_token) /\ b.buffer_len = 0
    \/ is_some(b.document_resume_token)

\* C25: when build() is given no post batch token it may use and no document
\* token, and options with start_after = S, the stage has resumeAfter = S
\* and no startAfter key, also when the options set resume_after as well.
C25_StartAfterThird ==
    (is_some(built) /\ ~TokenRule(BuiltFrom) /\ is_some(BuiltFrom.options.start_after)) =>
        /\ BuiltOk
        /\ BuiltStage.resumeAfter = BsonDocument(unwrap(BuiltFrom.options.start_after))
        /\ ~contains_key(BuiltStage, "startAfter")

\* C25 witness: options with start_after and resume_after, a post batch token
\* the non-empty buffer rules out, no document token: the stage resumes after
\* the start_after token.
C25_Witness ==
    /\ BuiltOk
    /\ is_some(BuiltFrom.post_batch_resume_token)
    /\ BuiltFrom.buffer_len > 0
    /\ BuiltFrom.document_resume_token = None
    /\ BuiltFrom.options.start_after = Some("u2")
    /\ BuiltFrom.options.resume_after = Some("u1")
    /\ BuiltStage.resumeAfter = BsonDocument("u2")
    /\ ~contains_key(BuiltStage, "startAfter")

\* C26: when rules 1 to 3 do not apply and the options set resume_after = R,
\* the stage has resumeAfter = R and its startAtOperationTime is what the
\* options serialise to: last_optime adds no start time.
C26_ResumeAfterFourth ==
    (/\ is_some(built)
     /\ ~TokenRule(BuiltFrom)
     /\ BuiltFrom.options.start_after = None
     /\ is_some(BuiltFrom.options.resume_after)) =>
        /\ BuiltOk
        /\ BuiltStage.resumeAfter = BsonDocument(unwrap(BuiltFrom.options.resume_after))
        /\ BuiltStage.startAtOperationTime =
               ser_opt(BuiltFrom.options.start_at_operation_time, "timestamp")

\* C26 witness: options with resume_after only and a known last optime: the
\* stage resumes after the user's token and names no start time.
C26_Witness ==
    /\ BuiltOk
    /\ ~TokenRule(BuiltFrom)
    /\ BuiltFrom.options.start_after = None
    /\ BuiltFrom.options.resume_after = Some("u1")
    /\ BuiltFrom.options.start_at_operation_time = None
    /\ BuiltFrom.last_optime = Some("ts1")
    /\ BuiltStage.resumeAfter = BsonDocument("u1")
    /\ ~has_value(BuiltStage, "startAtOperationTime")

\* Rule 5 of build() applies to the builder.
OptimeRule(b) ==
    /\ ~TokenRule(b)
    /\ b.options.start_after = None
    /\ b.options.resume_after = None
    /\ (is_some(b.last_optime) \/ is_some(b.options.start_at_operation_time))

\* C27: when rules 1 to 4 do not apply and a last optime is known or the
\* options set start_at_operation_time, build() returns a pipeline whose
\* stage has startAtOperationTime = one of the two that is available, and
\* no resumeAfter token.
C27_OptimeFifth ==
    (is_some(built) /\ OptimeRule(BuiltFrom)) =>
        /\ BuiltOk
        /\ BuiltStage.startAtOperationTime \in
               {BsonTimeStamp(unwrap(o)) :
                   o \in {BuiltFrom.last_optime,
                          BuiltFrom.options.start_at_operation_time} \ {None}}
        /\ ~has_value(BuiltStage, "resumeAfter")

\* The stage build() makes of options that set no resume directive when no
\* token and no optime is known: the serialised options, with
\* allChangesForCluster for a cluster-wide stream.
FreshStage(options, cluster) ==
    IF cluster
    THEN insert(to_bson(options), "allChangesForCluster", BsonBool("true"))
    ELSE to_bson(options)
\* The options set none of start_after, resume_after, start_at_operation_time.
NoDirective(options) ==
    /\ options.start_after = None
    /\ options.resume_after = None
    /\ options.start_at_operation_time = None

C29_StageFirst ==
    BuiltOk =>
        LET p == unwrap(built).res.val
            orig == BuiltFrom.pipeline
        IN  /\ Len(p) = Len(orig) + 1
            /\ p[1].name = "$changeStream"
            /\ \A i \in 1..Len(orig) : p[i + 1] = orig[i]
            /\ \A i \in 2..Len(p) : p[i].name # "$changeStream"
            /\ orig \in Pipelines

\* C29 witness: a build from a pipeline of two stages returned three stages:
\* $changeStream, $match, $project.
C29_Witness ==
    /\ BuiltOk
    /\ BuiltFrom.pipeline = <<MatchStage, ProjectStage>>
    /\ Len(unwrap(built).res.val) = 3
    /\ unwrap(built).res.val[1].name = "$changeStream"
    /\ unwrap(built).res.val[2] = MatchStage
    /\ unwrap(built).res.val[3] = ProjectStage

\* C30: in Streaming state the change stream takes an error as not
\* recoverable exactly when it is a server error outside the network class
\* whose code is Interrupted, CappedPositionLost or CursorKilled; and a
\* next() whose cursor reported an error rebuilt its cursor exactly when the
\* error is not one of those.
C30_Classification ==
    /\ (is_some(cs) /\ ~unwrap(cs).is_initial_agg) =>
           \A e \in Errors :
               ~is_error_recoverable(unwrap(cs), e) <=>
                   (/\ e.type = "CodedError"
                    /\ ~IsNetworkError(e)
                    /\ e.code \in {"Interrupted", "CappedPositionLost", "CursorKilled"})
    /\ StreamingError =>
           (last.rebuilds = 0 <=>
               (IsDenylisted(unwrap(last.first)) /\ ~IsNetworkError(unwrap(last.first))))

\* C30 witness: in Streaming state the cursor reported a server error that is
\* neither a network error nor on the denylist, and the call rebuilt its
\* cursor.
C30_Witness ==
    /\ StreamingError
    /\ unwrap(last.first) = CodedError("InternalError")
    /\ last.rebuilds = 1

\* The connections of the pool that are open: idle sockets and sockets held
\* in PooledStreams.
Live(p, st) == Len(p.sockets) + Cardinality({t \in Threads : st[t].pc = "holding"})
\* The PooledStream thread t holds in streams st.
HeldBy(st, t) == unwrap(st[t].stream)

\* C21: under every interleaving of acquire_stream, drops, clear() and
\* set_size() the open connections of the pool (idle or held) are never
\* more than the pool's size, and a step opens a connection only when no
\* socket is idle and len is below the size.
C21_Bounded ==
    [][is_some(pool') =>
          /\ Live(unwrap(pool'), streams') <= unwrap(pool').size
          /\ (is_some(pool) /\ Live(unwrap(pool'), streams') > Live(unwrap(pool), streams))
                => connects(unwrap(pool))]_vars

\* C22: the iteration of the pool never decreases and changes only by a
\* clear(), by one; the idle list holds sockets of the current iteration
\* only; a stream handed out carries a socket connected in the iteration it
\* is handed out in; and dropping a stream of an earlier iteration leaves
\* the idle list as it was.
C22_StaleDiscarded ==
    [][(is_some(pool) /\ is_some(pool')) =>
          LET p == unwrap(pool)
              q == unwrap(pool')
          IN  /\ q.iteration >= p.iteration
              /\ (q.iteration # p.iteration =>
                     q.iteration = p.iteration + 1 /\ q.sockets = <<>> /\ q.len = 0)
              /\ \A i \in 1..Len(q.sockets) : q.sockets[i].born = q.iteration
              /\ \A t \in Threads :
                    /\ (streams[t].pc # "holding" /\ streams'[t].pc = "holding") =>
                           /\ HeldBy(streams', t).iteration = q.iteration
                           /\ HeldBy(streams', t).socket.born = q.iteration
                    /\ (/\ streams[t].pc = "holding"
                        /\ streams'[t].pc # "holding"
                        /\ HeldBy(streams, t).iteration < p.iteration) =>
                           q.sockets = p.sockets]_vars

\* C22 witness: after a clear() a thread dropped a stream of the earlier
\* iteration and its socket was closed, while another thread holds a stream
\* of the current iteration and no socket is idle.
C22_Witness ==
    /\ is_some(pool)
    /\ unwrap(pool).iteration = 1
    /\ ~unwrap(pool).poisoned
    /\ unwrap(pool).sockets = <<>>
    /\ streams["t1"] = Thread("idle", None, "Closed")
    /\ streams["t2"].pc = "holding"
    /\ HeldBy(streams, "t2") = PooledStream(Socket(1), 1)

\* C23: when connecting succeeds, every holder drops its stream and every
\* thread that can go on in acquire_stream does, a thread waiting in
\* acquire_stream gets a stream in the end.
C23_BlockedProgress ==
    \A t \in Threads :
        (streams[t].pc \in {"waiting", "woken"}) ~> (streams[t].pc = "holding")

Feed == unwrap(cs)
FeedAfter == unwrap(cs')
\* The change stream without its two resume tokens.
without_tokens(self) ==
    [self EXCEPT !.document_resume_token = None, !.post_batch_resume_token = None]

\* C31: in every reachable state of a change stream, when get_resume_token()
\* returns a token T, the command new_cursor builds in that state has a stage
\* with resumeAfter = T and neither startAfter nor startAtOperationTime; when
\* it returns none, new_cursor builds what it builds from a change stream
\* that holds neither resume token.
C31_TokenMirrorsRebuild ==
    is_some(cs) =>
        LET T == get_resume_token(Feed)
            q == new_cursor_cmd(Feed)
        IN  IF is_some(T)
            THEN /\ q.kind = "Ok"
                 /\ stage(q.val.cmd.pipeline).resumeAfter = BsonDocument(unwrap(T))
                 /\ ~has_value(stage(q.val.cmd.pipeline), "startAfter")
                 /\ ~has_value(stage(q.val.cmd.pipeline), "startAtOperationTime")
            ELSE q = new_cursor_cmd(without_tokens(Feed))

\* C31 witness: a document is still buffered and a post batch token is
\* stored: get_resume_token() is the document token, and so is the
\* resumeAfter of the command new_cursor builds.
C31_Witness ==
    /\ is_some(cs)
    /\ Len(Feed.buffer) = 1
    /\ Feed.post_batch_resume_token = Some("p1")
    /\ Feed.document_resume_token = Some("t1")
    /\ get_resume_token(Feed) = Some("t1")
    /\ stage(new_cursor_cmd(Feed).val.cmd.pipeline).resumeAfter = BsonDocument("t1")

\* C32: document_resume_token is none while no document has been returned
\* and the id of the last returned document afterwards; it changes only in
\* a call that returns a document.
C32_DocumentToken ==
    [][is_some(cs') =>
          /\ FeedAfter.document_resume_token =
                 (IF is_some(yielded') THEN Some(unwrap(yielded').id) ELSE None)
          /\ (is_some(cs) /\ FeedAfter.document_resume_token # Feed.document_resume_token) =>
                 /\ last'.ret = "Item"
                 /\ FeedAfter.document_resume_token = Some(unwrap(last'.item).id)]_vars

\* C32 witness: a call recovered, stored a payload with an empty batch and
\* a post batch token, and returned no document: the document token is
\* still the id of the document returned before.
C32_Witness ==
    /\ is_some(cs)
    /\ last.op = "next"
    /\ last.ret = "NoItem"
    /\ last.pulls = <<"Err", "Ok">>
    /\ Feed.post_batch_resume_token = Some("p1")
    /\ yielded = Some([id |-> "t1"])
    /\ Feed.document_resume_token = Some("t1")

\* C33: a call that stored a payload leaves post_batch_resume_token = the
\* payload's token (none when it carries none), the payload's batch as what
\* it returned followed by what is buffered, in server order, last_optime =
\* the payload's operation time, and the change stream Streaming; a call
\* whose last fetch found nothing available leaves the four as they were.
C33_FetchStores ==
    [][(is_some(cs) /\ last'.op = "next") =>
          /\ is_some(last'.stored) =>
                /\ FeedAfter.post_batch_resume_token =
                       unwrap(last'.stored).cursor.post_batch_resume_token
                /\ Returned(last') \o Pending(FeedAfter) = unwrap(last'.stored).cursor.batch
                /\ FeedAfter.last_optime = Some(unwrap(last'.stored).operation_time)
                /\ ~FeedAfter.is_initial_agg
          /\ (last'.pulls # <<>> /\ last'.pulls[Len(last'.pulls)] = "None") =>
                /\ last'.ret = "NoItem"
                /\ last'.stored = None
                /\ FeedAfter.post_batch_resume_token = Feed.post_batch_resume_token
                /\ FeedAfter.buffer = Feed.buffer
                /\ FeedAfter.last_optime = Feed.last_optime
                /\ FeedAfter.is_initial_agg = Feed.is_initial_agg]_vars

\* C33 witness: the rebuilt query resumed after the stored post batch token,
\* the payload of the retried fetch carried two documents and no token:
\* the stored token is cleared and the second document is buffered.
C33_Witness ==
    /\ is_some(cs)
    /\ last.op = "next"
    /\ last.pulls = <<"Err", "Ok">>
    /\ is_some(last.query)
    /\ is_some(last.stored)
    /\ QueryStage(last).resumeAfter = BsonDocument("p1")
    /\ unwrap(last.stored).cursor.post_batch_resume_token = None
    /\ Len(unwrap(last.stored).cursor.batch) = 2
    /\ Feed.post_batch_resume_token = None
    /\ Len(Feed.buffer) = 1
    /\ Feed.last_optime = Some("ts1")

\* C34: the pipeline, the options, the read preference and the target of a
\* change stream never change; a call that opened (or tried to open) a
\* rebuilt cursor and stored no payload changes nothing but the cursor; the
\* cursor changes only in a call that rebuilds; and a rebuilt query carries
\* the caller's stages and the read preference of the constructor.
C34_RecoveryFrame ==
    [][(is_some(cs) /\ is_some(cs')) =>
          /\ FeedAfter.pipeline = Feed.pipeline
          /\ FeedAfter.options = Feed.options
          /\ FeedAfter.read_preference = Feed.read_preference
          /\ FeedAfter.cstype = Feed.cstype
          /\ (FeedAfter.cursor # Feed.cursor) =>
                 last'.rebuilds = 1 /\ FeedAfter.cursor = Feed.cursor + 1
          /\ (last'.rebuilds = 1 /\ last'.stored = None) =>
                 [FeedAfter EXCEPT !.cursor = Feed.cursor] = Feed
          /\ (last'.rebuilds = 1 /\ is_some(last'.query)) =>
                 /\ unwrap(last'.query).rp = Feed.read_preference
                 /\ Tail(unwrap(last'.query).cmd.pipeline) = Feed.pipeline]_vars

\* C34 witness: a change stream with a user pipeline and the Secondary read
\* preference, holding a document token, replaced its cursor and found
\* nothing available on the new one.
C34_Witness ==
    /\ is_some(cs)
    /\ last.op = "next"
    /\ last.rebuilds = 1
    /\ last.pulls = <<"Err", "None">>
    /\ Feed.cursor = 1
    /\ Feed.read_preference = "Secondary"
    /\ is_some(last.query)
    /\ unwrap(last.query).rp = "Secondary"
    /\ Len(unwrap(last.query).cmd.pipeline) = 3
    /\ is_some(Feed.document_resume_token)

\* The kind of change stream the last call belongs to.
LastKind == IF last.op = "next" THEN Feed.cstype.kind ELSE last.op

\* C35: every query handed to command_cursor, by a constructor or by a
\* rebuild, goes to the target of its change stream: the collection in its
\* database, the database with aggregate: 1, or the admin database with
\* aggregate: 1; and its stage has allChangesForCluster (= true) exactly
\* for a deployment change stream.
C35_OwnTarget ==
    is_some(last.query) =>
        LET q == unwrap(last.query)
        IN  /\ LastKind = "Coll" =>
                   q.db = DbName /\ q.cmd.aggregate = BsonString(CollName)
            /\ LastKind = "Db" =>
                   q.db = DbName /\ q.cmd.aggregate = BsonI32("1")
            /\ LastKind = "Deployment" =>
                   q.db = "admin" /\ q.cmd.aggregate = BsonI32("1")
            /\ LastKind \in {"Coll", "Db", "Deployment"}
            /\ IF LastKind = "Deployment"
               THEN QueryStage(last).allChangesForCluster = BsonBool("true")
               ELSE ~contains_key(QueryStage(last), "allChangesForCluster")

\* C35 witness: a database change stream rebuilt its cursor: the query went
\* to its database, without allChangesForCluster.
C35_Witness ==
    /\ is_some(cs)
    /\ last.op = "next"
    /\ last.rebuilds = 1
    /\ Feed.cstype.kind = "Db"
    /\ is_some(last.query)
    /\ unwrap(last.query).db = DbName
    /\ unwrap(last.query).cmd.aggregate = BsonI32("1")
    /\ ~contains_key(QueryStage(last), "allChangesForCluster")

\* C36: a next() that returns an error leaves the buffer, the document
\* token, the post batch token, last_optime and is_initial_agg as they were
\* before the call, wherever the error arose: the first fetch, the opening
\* of the rebuilt cursor, the retried fetch or the decoding of a payload.
C36_ErrorLeavesState ==
    [][(is_some(cs) /\ last'.op = "next" /\ last'.ret = "Err") =>
          /\ last'.raised \in {"fetch", "open", "retry", "decode"}
          /\ FeedAfter.buffer = Feed.buffer
          /\ FeedAfter.document_resume_token = Feed.document_resume_token
          /\ FeedAfter.post_batch_resume_token = Feed.post_batch_resume_token
          /\ FeedAfter.last_optime = Feed.last_optime
          /\ FeedAfter.is_initial_agg = Feed.is_initial_agg]_vars

\* C36 witness: a Streaming change stream that holds both tokens could not
\* open its rebuilt cursor and returned the error of command_cursor.
C36_Witness ==
    /\ is_some(cs)
    /\ last.op = "next"
    /\ last.ret = "Err"
    /\ last.raised = "open"
    /\ last.err = Some(OperationError)
    /\ Feed.post_batch_resume_token = Some("p1")
    /\ Feed.document_resume_token = Some("t1")
    /\ Feed.last_optime = Some("ts1")
    /\ ~Feed.is_initial_agg

\* C37: a call that rebuilds began Streaming, with an empty buffer and a
\* known last_optime; the query it builds has resumeAfter or
\* startAtOperationTime set and no startAfter, so it is never the stage
\* without a directive; and its resumeAfter is the post batch token whenever
\* one is stored, the document token only when none is.
C37_RebuildState ==
    [][(is_some(cs) /\ last'.op = "next" /\ last'.rebuilds = 1) =>
          /\ ~Feed.is_initial_agg
          /\ Feed.buffer = <<>>
          /\ is_some(Feed.last_optime)
          /\ is_some(last'.query) =>
                /\ ResumeDirectives(QueryStage(last')) \in
                       {{"resumeAfter"}, {"startAtOperationTime"}}
                /\ is_some(Feed.post_batch_resume_token) =>
                       QueryStage(last').resumeAfter =
                           BsonDocument(unwrap(Feed.post_batch_resume_token))
                /\ (/\ is_some(Feed.document_resume_token)
                    /\ Feed.post_batch_resume_token = None) =>
                       QueryStage(last').resumeAfter =
                           BsonDocument(unwrap(Feed.document_resume_token))]_vars

\* C37 witness: a change stream that has stored an empty batch without a
\* post batch token rebuilt its cursor: the query starts at the last
\* operation time.
C37_Witness ==
    /\ is_some(cs)
    /\ last.op = "next"
    /\ last.rebuilds = 1
    /\ is_some(last.query)
    /\ Feed.document_resume_token = None
    /\ ResumeDirectives(QueryStage(last)) = {"startAtOperationTime"}
    /\ QueryStage(last).startAtOperationTime = BsonTimeStamp("ts1")

\* C38: a change stream is constructed with is_initial_agg set; while it is
\* set the buffer is empty and the two tokens and last_optime are unset;
\* once cleared it stays cleared; and it is cleared exactly by a call that
\* stores a payload (a call that finds nothing available leaves it set).
C38_FlagMonotone ==
    [][is_some(cs') =>
          /\ (cs = None => FeedAfter.is_initial_agg)
          /\ FeedAfter.is_initial_agg =>
                /\ FeedAfter.buffer = <<>>
                /\ FeedAfter.document_resume_token = None
                /\ FeedAfter.post_batch_resume_token = None
                /\ FeedAfter.last_optime = None
          /\ is_some(cs) =>
                /\ (~Feed.is_initial_agg => ~FeedAfter.is_initial_agg)
                /\ (Feed.is_initial_agg /\ ~FeedAfter.is_initial_agg) <=>
                       (Feed.is_initial_agg /\ is_some(last'.stored))]_vars

\* C38 witness: a call that began with is_initial_agg set stored the first
\* payload, with an empty batch: it returned no document and the change
\* stream is Streaming, with a last_optime.
C38_Witness ==
    /\ is_some(cs)
    /\ last.op = "next"
    /\ last.initial
    /\ is_some(last.stored)
    /\ last.ret = "NoItem"
    /\ ~Feed.is_initial_agg
    /\ Feed.last_optime = Some("ts1")
    /\ Feed.buffer = <<>>

\* The error is one is_error_recoverable lets a Streaming change stream
\* recover from.
Recoverable(e) == ~(IsDenylisted(e) /\ ~IsNetworkError(e))

\* C39: in a change stream that has recovered before (its last call rebuilt
\* the cursor, whatever came of the retried fetch, or an earlier call
\* replaced it), a call whose cursor reports a recoverable error rebuilds
\* again, once.
C39_RetryPerCall ==
    [][(/\ is_some(cs)
        /\ (last.op = "next" /\ last.rebuilds = 1) \/ Feed.cursor > 0
        /\ last'.op = "next"
        /\ is_some(last'.first)
        /\ Recoverable(unwrap(last'.first))) =>
           /\ last'.rebuilds = 1
           /\ last'.pulls[1] = "Err"
           /\ Len(last'.pulls) <= 2
           /\ (last'.raised = "" /\ last'.ret # "Panic") => FeedAfter.cursor = Feed.cursor + 1]_vars

\* C39 witness: a change stream whose cursor has been replaced twice, the
\* second time by the last call, which returned a document from the
\* retried fetch.
C39_Witness ==
    /\ is_some(cs)
    /\ Feed.cursor = 2
    /\ last.op = "next"
    /\ last.rebuilds = 1
    /\ last.pulls = <<"Err", "Ok">>
    /\ last.ret = "Item"

====
